---- MODULE Spec2Model ----
(***************************************************************************)
(* Model of src/components/DBTable/InnerFormSchemaUtils.js: SchemaUtils.   *)
(*                                                                         *)
(* parse(schema) packs the fields of a query-form schema into rows of a    *)
(* 24-unit grid and returns a closure; the closure, given antd's           *)
(* getFieldDecorator, renders the rows.  The model follows the forEach     *)
(* loop of parse one field at a time and the two nested loops of the       *)
(* returned closure one column and one row at a time.                      *)
(*                                                                         *)
(* A React element is the record [type, key, props, children].  Only the   *)
(* props that tell widgets and grid cells apart are kept (sm, span,        *)
(* offset, gutter, step, multiple, showTime, format, options, value, id);  *)
(* labels, placeholders, sizes and labelCol/wrapperCol are presentation    *)
(* only and are left out.                                                  *)
(*                                                                         *)
(* A closure is the record of the code it runs and the values it captured: *)
(* a column producer is [fn, field, items], where items are the formItem   *)
(* closures (each registers one key and wraps one widget).                 *)
(***************************************************************************)
EXTENDS Integers, Sequences, FiniteSets, TLC

VARIABLES
  schema,     \* the argument of parse
  pc,         \* "parsing", "parsed", "rendering", "rendered", "threw"
  idx,        \* number of fields the forEach of parse has visited
  rows,       \* parse: const rows
  cols,       \* parse: let cols
  spaceLeft,  \* parse: let spaceLeft
  pos,        \* history: pos[n] = <<row, column>> (1-based) the n-th field was pushed at
  log,        \* the logger calls made so far, [level, what]
  i,          \* closure: the row loop's i
  ci,         \* closure: how many columns of rows[i] the inner loop has visited
  formRows,   \* closure: const formRows
  formCols,   \* closure: const formCols of the current row
  regs,       \* the keys getFieldDecorator has been called with, in call order
  form        \* the value the closure returned (NoForm before it returns)

vars == <<schema, pc, idx, rows, cols, spaceLeft, pos, log,
          i, ci, formRows, formCols, regs, form>>

-----------------------------------------------------------------------------
(* Bounds of the checked inputs *)

MaxLen == 5        \* longest schema of the layout family
DispatchLen == 1   \* longest schema of the dispatch family (all showType x dataType)
MaxKeyFields == 2  \* longest schema of the key family (keys that may collide)

-----------------------------------------------------------------------------
(* React elements and the host's getFieldDecorator *)

El(type, key, props, children) ==
  [type |-> type, key |-> key, props |-> props, children |-> children]

NoKey == ""
NoProps == [none |-> TRUE]
NoForm == [type |-> "none"]

\* getFieldDecorator(id)(element): the host binds the element to form state
\* under id and returns the bound element.  The call itself is recorded in regs.
getFieldDecorator(id, element) ==
  El("Decorated", NoKey, [id |-> id], <<element>>)

-----------------------------------------------------------------------------
(* Column producers *)

\* a formItem closure: getFieldDecorator => getFieldDecorator(regKey)(widget)
FormItemFn(regKey, widget) == [regKey |-> regKey, widget |-> widget]

Null == [fn |-> "null"]

colWrapper(formItem, field) ==
  [fn |-> "colWrapper", field |-> field, items |-> <<formItem>>]

betweenColWrapper(beginFormItem, endFormItem, field) ==
  [fn |-> "betweenColWrapper", field |-> field,
   items |-> <<beginFormItem, endFormItem>>]

\* <Option key={option.key} value={option.key}>{option.value}</Option>
OptionEls(type, options) ==
  [n \in 1..Len(options) |->
     El(type, options[n].key, [value |-> options[n].key], <<options[n].value>>)]

transformSelect(field) ==
  colWrapper(FormItemFn(field.key,
      El("Select", NoKey, [multiple |-> FALSE],
         OptionEls("Option", field.options))), field)

transformRadio(field) ==
  colWrapper(FormItemFn(field.key,
      El("RadioGroup", NoKey, NoProps,
         OptionEls("Radio", field.options))), field)

\* options.push({label: option.value, value: option.key})
transformCheckbox(field) ==
  colWrapper(FormItemFn(field.key,
      El("CheckboxGroup", NoKey,
         [options |-> [n \in 1..Len(field.options) |->
                         [label |-> field.options[n].value,
                          value |-> field.options[n].key]]],
         <<>>)), field)

transformMultiSelect(field) ==
  colWrapper(FormItemFn(field.key,
      El("Select", NoKey, [multiple |-> TRUE],
         OptionEls("Option", field.options))), field)

DateFormat == "YYYY-MM-DD HH:mm:ss"

transformNormal(field) ==
  CASE field.dataType = "int" ->
         colWrapper(FormItemFn(field.key,
             El("InputNumber", NoKey, [step |-> "default"], <<>>)), field)
    [] field.dataType = "float" ->
         colWrapper(FormItemFn(field.key,
             El("InputNumber", NoKey, [step |-> "0.01"], <<>>)), field)
    [] field.dataType = "datetime" ->
         colWrapper(FormItemFn(field.key,
             El("DatePicker", NoKey,
                [showTime |-> TRUE, format |-> DateFormat], <<>>)), field)
    [] OTHER ->
         colWrapper(FormItemFn(field.key,
             El("Input", NoKey, NoProps, <<>>)), field)

\* `${field.key}Begin`
BeginKey(field) == field.key \o "Begin"

\* variant of the end key: the begin suffix pasted for the end input too
EndKeyPasted(field) == field.key \o "Begin"

\* `${field.key}End`
EndKey(field) == field.key \o "End"

transformBetween(field) ==
  CASE field.dataType = "int" ->
         betweenColWrapper(
           FormItemFn(BeginKey(field),
                      El("InputNumber", NoKey, [step |-> "default"], <<>>)),
           FormItemFn(EndKey(field),
                      El("InputNumber", NoKey, [step |-> "default"], <<>>)),
           field)
    [] field.dataType = "float" ->
         betweenColWrapper(
           FormItemFn(BeginKey(field),
                      El("InputNumber", NoKey, [step |-> "0.01"], <<>>)),
           FormItemFn(EndKey(field),
                      El("InputNumber", NoKey, [step |-> "0.01"], <<>>)),
           field)
    [] field.dataType = "datetime" ->
         [fn |-> "datetimeBetween", field |-> field,
          items |-> <<FormItemFn(BeginKey(field),
                        El("DatePicker", NoKey,
                           [showTime |-> TRUE, format |-> DateFormat], <<>>)),
                      FormItemFn(EndKey(field),
                        El("DatePicker", NoKey,
                           [showTime |-> TRUE, format |-> DateFormat], <<>>))>>]
    [] OTHER -> Null   \* logger.error(...); return null

\* variant of the switch: the multiSelect case is missing
transformFieldNoMulti(field) ==
  CASE field.showType = "select" -> transformSelect(field)
    [] field.showType = "radio" -> transformRadio(field)
    [] field.showType = "checkbox" -> transformCheckbox(field)
    [] field.showType = "between" -> transformBetween(field)
    [] OTHER -> transformNormal(field)

\* the switch on field.showType in parse
transformField(field) ==
  CASE field.showType = "select" -> transformSelect(field)
    [] field.showType = "radio" -> transformRadio(field)
    [] field.showType = "checkbox" -> transformCheckbox(field)
    [] field.showType = "multiSelect" -> transformMultiSelect(field)
    [] field.showType = "between" -> transformBetween(field)
    [] OTHER -> transformNormal(field)

\* the logger call the transform of a field makes
LogOf(field) ==
  CASE field.showType = "select" -> [level |-> "debug", what |-> "Select"]
    [] field.showType = "radio" -> [level |-> "debug", what |-> "Radio"]
    [] field.showType = "checkbox" -> [level |-> "debug", what |-> "Checkbox"]
    [] field.showType = "multiSelect" ->
         [level |-> "debug", what |-> "MultipleSelect"]
    [] field.showType = "between" ->
         IF field.dataType \in {"int", "float", "datetime"}
         THEN [level |-> "debug", what |-> field.dataType \o " BETWEEN"]
         ELSE [level |-> "error", what |-> "unknown dataType: " \o field.dataType]
    [] OTHER ->
         [level |-> "debug",
          what |-> CASE field.dataType = "int" -> "integer input"
                     [] field.dataType = "float" -> "float input"
                     [] field.dataType = "datetime" -> "datetime input"
                     [] OTHER -> "varchar input"]

-----------------------------------------------------------------------------
(* parse: the row packing *)

RowSpace == 24             \* each row of the antd grid has 24 units
NormalSpace == 8           \* an ordinary field takes 8
BetweenDatetimeSpace == 16 \* only the datetime between takes 16

\* variant of spaceNeed: every field is taken to need the ordinary width
spaceNeedOrdinary(field) == NormalSpace

spaceNeed(field) ==
  IF field.showType = "between" /\ field.dataType = "datetime"
  THEN BetweenDatetimeSpace
  ELSE NormalSpace

\* variants of the row-break test: against the ordinary width whatever the
\* field needs; and breaking already when the field would fit exactly
NeedNewRowOrdinary(left, need) == left < NormalSpace
NeedNewRowEager(left, need) == left <= need

\* if (spaceLeft < spaceNeed): the current row is out of space
NeedNewRow(left, need) == left < need

\* variant of cols.push: the new column goes to the front
PushColFront(cs, col) == <<col>> \o cs

\* cols.push(col)
PushCol(cs, col) == Append(cs, col)

\* the state of parse before the first field
ParseStart == [rows |-> <<>>, cols |-> <<>>, spaceLeft |-> RowSpace, pos |-> <<>>]

\* one iteration of schema.forEach
ParseStep(st, field) ==
  LET need == spaceNeed(field)
      brk == NeedNewRow(st.spaceLeft, need)
      rows1 == IF brk THEN Append(st.rows, st.cols) ELSE st.rows
      cols1 == IF brk THEN <<>> ELSE st.cols
      left1 == IF brk THEN RowSpace ELSE st.spaceLeft
      cols2 == PushCol(cols1, transformField(field))
  IN [rows |-> rows1,
      cols |-> cols2,
      spaceLeft |-> left1 - need,
      pos |-> Append(st.pos, <<Len(rows1) + 1, Len(cols2)>>)]

\* variant of the last-row step: the row buffer is pushed without the test
LastRowAlways(rs, cs) == Append(rs, cs)

\* if (cols.length > 0) rows.push(cols)
LastRow(rs, cs) == IF Len(cs) > 0 THEN Append(rs, cs) ELSE rs

\* the whole forEach, as a function of the schema
RECURSIVE ParseAll(_)
ParseAll(s) ==
  IF s = <<>> THEN ParseStart
  ELSE ParseStep(ParseAll(SubSeq(s, 1, Len(s) - 1)), s[Len(s)])

-----------------------------------------------------------------------------
(* The returned closure: rendering one column producer, one row, the form *)

FormItemEl(key, item) ==
  El("FormItem", key, NoProps, <<getFieldDecorator(item.regKey, item.widget)>>)

\* col(getFieldDecorator) for a col that is a function
ApplyCol(col) ==
  CASE col.fn = "colWrapper" ->
         El("Col", col.field.key, [sm |-> 8],
            <<FormItemEl(col.field.key, col.items[1])>>)
    [] col.fn = "betweenColWrapper" ->
         El("Col", BeginKey(col.field), [sm |-> 8],
            <<El("Row", NoKey, NoProps,
                 <<El("Col", NoKey, [span |-> 16],
                      <<FormItemEl(BeginKey(col.field), col.items[1])>>),
                   El("Col", NoKey, [span |-> 7, offset |-> 1],
                      <<FormItemEl(EndKey(col.field), col.items[2])>>)>>)>>)
    [] col.fn = "datetimeBetween" ->
         El("div", "datetimeBetweenDiv", NoProps,
            <<El("Col", BeginKey(col.field), [sm |-> 8],
                 <<FormItemEl(BeginKey(col.field), col.items[1])>>),
              El("Col", EndKey(col.field), [sm |-> 8],
                 <<FormItemEl(EndKey(col.field), col.items[2])>>)>>)

\* the getFieldDecorator calls col(getFieldDecorator) makes, in order
RegsOfCol(col) == [n \in 1..Len(col.items) |-> col.items[n].regKey]

\* <Row key={i} gutter={16}>{formCols}</Row>
RowEl(n, fc) == El("Row", ToString(n), [gutter |-> 16], fc)

\* <Form horizontal>{formRows}</Form>
FormEl(fr) == El("Form", NoKey, [horizontal |-> TRUE], fr)

-----------------------------------------------------------------------------
(* The schemas checked *)

ShowTypes ==
  {"select", "multiSelect", "radio", "checkbox", "between", "input", "undefined"}
DataTypes == {"int", "float", "datetime", "varchar", "unknown"}
ChoiceTypes == {"select", "multiSelect", "radio", "checkbox"}

Opts == <<[key |-> "a", value |-> "A"], [key |-> "b", value |-> "B"]>>

Field(key, showType, dataType) ==
  [key |-> key, showType |-> showType, dataType |-> dataType,
   options |-> IF showType \in ChoiceTypes THEN Opts ELSE <<>>]

SeqsUpTo(S, n) == UNION {[1..m -> S] : m \in 0..n}

\* the key of the n-th field where keys are given by position
PosKey(n) == "k" \o ToString(n)

\* layout family: one kind of every width and producer shape, keys by position
LayoutKinds ==
  {<<"input", "varchar">>, <<"select", "int">>, <<"between", "float">>,
   <<"between", "datetime">>, <<"between", "unknown">>}

LayoutSchemas ==
  {[n \in 1..Len(ks) |-> Field(PosKey(n), ks[n][1], ks[n][2])] :
     ks \in SeqsUpTo(LayoutKinds, MaxLen)}

\* dispatch family: every showType with every dataType
DispatchSchemas ==
  {[n \in 1..Len(ks) |-> Field(PosKey(n), ks[n][1], ks[n][2])] :
     ks \in SeqsUpTo(ShowTypes \X DataTypes, DispatchLen)}

\* key family: pairwise distinct keys, some of which are another key's derived key
KeyNames == {"a", "b", "aBegin", "aEnd"}
KeyKinds ==
  {<<"input", "varchar">>, <<"between", "int">>, <<"between", "datetime">>,
   <<"between", "unknown">>}

KeySchemas ==
  {[n \in 1..Len(ks) |-> Field(ks[n][1], ks[n][2][1], ks[n][2][2])] :
     ks \in {s \in SeqsUpTo(KeyNames \X KeyKinds, MaxKeyFields) :
               \A m, n \in 1..Len(s) : m # n => s[m][1] # s[n][1]}}

Schemas == LayoutSchemas \cup DispatchSchemas \cup KeySchemas

-----------------------------------------------------------------------------
(* The state machine *)

Init ==
  /\ schema \in Schemas
  /\ pc = "parsing"
  /\ idx = 0
  /\ rows = ParseStart.rows
  /\ cols = ParseStart.cols
  /\ spaceLeft = ParseStart.spaceLeft
  /\ pos = ParseStart.pos
  /\ log = <<>>
  /\ i = 0
  /\ ci = 0
  /\ formRows = <<>>
  /\ formCols = <<>>
  /\ regs = <<>>
  /\ form = NoForm

\* schema.forEach: the callback on the next field
ParseField ==
  /\ pc = "parsing"
  /\ idx < Len(schema)
  /\ LET field == schema[idx + 1]
         st == ParseStep([rows |-> rows, cols |-> cols,
                          spaceLeft |-> spaceLeft, pos |-> pos], field)
     IN /\ rows' = st.rows
        /\ cols' = st.cols
        /\ spaceLeft' = st.spaceLeft
        /\ pos' = st.pos
        /\ log' = Append(log, LogOf(field))
  /\ idx' = idx + 1
  /\ UNCHANGED <<schema, pc, i, ci, formRows, formCols, regs, form>>

\* after the forEach: push the last row and return the closure
ParseReturn ==
  /\ pc = "parsing"
  /\ idx = Len(schema)
  /\ rows' = LastRow(rows, cols)
  /\ pc' = "parsed"
  /\ UNCHANGED <<schema, idx, cols, spaceLeft, pos, log,
                 i, ci, formRows, formCols, regs, form>>

\* the closure is called: const formRows = []; i = 0; const formCols = []
RenderStart ==
  /\ pc = "parsed"
  /\ pc' = "rendering"
  /\ formRows' = <<>>
  /\ i' = 0
  /\ formCols' = <<>>
  /\ ci' = 0
  /\ UNCHANGED <<schema, idx, rows, cols, spaceLeft, pos, log, regs, form>>

\* formCols.push(col(getFieldDecorator)) where col is a function
RenderCol ==
  /\ pc = "rendering"
  /\ i < Len(rows)
  /\ ci < Len(rows[i + 1])
  /\ LET col == rows[i + 1][ci + 1]
     IN /\ col # Null
        /\ formCols' = Append(formCols, ApplyCol(col))
        /\ regs' = regs \o RegsOfCol(col)
  /\ ci' = ci + 1
  /\ UNCHANGED <<schema, pc, idx, rows, cols, spaceLeft, pos, log,
                 i, formRows, form>>

\* col(getFieldDecorator) where col is null: TypeError, the closure is left
RenderThrow ==
  /\ pc = "rendering"
  /\ i < Len(rows)
  /\ ci < Len(rows[i + 1])
  /\ rows[i + 1][ci + 1] = Null
  /\ pc' = "threw"
  /\ UNCHANGED <<schema, idx, rows, cols, spaceLeft, pos, log,
                 i, ci, formRows, formCols, regs, form>>

\* formRows.push(<Row key={i} ...>{formCols}</Row>); i++; next formCols
RenderRow ==
  /\ pc = "rendering"
  /\ i < Len(rows)
  /\ ci = Len(rows[i + 1])
  /\ formRows' = Append(formRows, RowEl(i, formCols))
  /\ i' = i + 1
  /\ formCols' = <<>>
  /\ ci' = 0
  /\ UNCHANGED <<schema, pc, idx, rows, cols, spaceLeft, pos, log, regs, form>>

\* return <Form horizontal>{formRows}</Form>
RenderReturn ==
  /\ pc = "rendering"
  /\ i = Len(rows)
  /\ form' = FormEl(formRows)
  /\ pc' = "rendered"
  /\ UNCHANGED <<schema, idx, rows, cols, spaceLeft, pos, log,
                 i, ci, formRows, formCols, regs>>

Next ==
  \/ ParseField
  \/ ParseReturn
  \/ RenderStart
  \/ RenderCol
  \/ RenderThrow
  \/ RenderRow
  \/ RenderReturn

Spec == Init /\ [][Next]_vars

-----------------------------------------------------------------------------
(* Vocabulary of the properties, written from their statements *)

\* the width a field requires: 16 for a datetime range, 8 for every other field
RequiredWidth(f) ==
  IF f.showType = "between" /\ f.dataType = "datetime" THEN 16 ELSE 8

\* a range field whose dataType is none of int, float, datetime
Unsupported(f) ==
  f.showType = "between" /\ f.dataType \notin {"int", "float", "datetime"}

\* the registration keys a field is to be registered under
KeysFor(f) ==
  IF f.showType = "between" THEN <<f.key \o "Begin", f.key \o "End">>
  ELSE <<f.key>>

RECURSIVE SumWidth(_, _)
SumWidth(s, S) ==
  IF S = {} THEN 0
  ELSE LET n == CHOOSE m \in S : TRUE
       IN RequiredWidth(s[n]) + SumWidth(s, S \ {n})

RECURSIVE Flatten(_)
Flatten(ss) ==
  IF ss = <<>> THEN <<>> ELSE ss[1] \o Flatten(SubSeq(ss, 2, Len(ss)))

NoDuplicates(s) == \A m, n \in 1..Len(s) : m # n => s[m] # s[n]

\* the fields pushed so far into row r
FieldsInRow(r) == {n \in 1..Len(pos) : pos[n][1] = r}

\* the rows fields have been pushed into so far
RowsUsed == {pos[n][1] : n \in 1..Len(pos)}

\* the plan once parse has returned; the entry the n-th field was pushed as
Parsed == pc # "parsing"
PlanEntry(n) == rows[pos[n][1]][pos[n][2]]

\* the entry the n-th field was pushed as, while its row may still be open
Entry(n) ==
  IF pos[n][1] <= Len(rows) THEN rows[pos[n][1]][pos[n][2]] ELSE cols[pos[n][2]]

\* the ids registered inside a rendered element, in document order
RECURSIVE IdsIn(_)
IdsIn(el) ==
  IF el.type = "Decorated" THEN <<el.props.id>>
  ELSE IF el.type \in {"Form", "Row", "Col", "div", "FormItem"}
  THEN Flatten([n \in 1..Len(el.children) |-> IdsIn(el.children[n])])
  ELSE <<>>

\* the top-level 8-unit grid cells of what one column producer rendered
TopCells(el) ==
  IF el.type = "Col" /\ el.props = [sm |-> 8] THEN 1
  ELSE IF el.type = "div"
  THEN Cardinality({n \in 1..Len(el.children) :
                      /\ el.children[n].type = "Col"
                      /\ el.children[n].props = [sm |-> 8]})
  ELSE 0

-----------------------------------------------------------------------------
(* C1 *)

\* C1: in every row the required widths of the fields placed in it sum to at
\* most 24, and a field goes to a new row exactly when its required width
\* exceeds what the fields already in the current row leave of the 24 units.
C1_RowCapacity ==
  /\ \A r \in RowsUsed : SumWidth(schema, FieldsInRow(r)) <= 24
  /\ Len(pos) >= 1 => pos[1] = <<1, 1>>
  /\ \A n \in 2..Len(pos) :
       LET before == {m \in 1..(n - 1) : pos[m][1] = pos[n - 1][1]}
           remaining == 24 - SumWidth(schema, before)
       IN IF RequiredWidth(schema[n]) > remaining
          THEN pos[n] = <<pos[n - 1][1] + 1, 1>>
          ELSE pos[n] = <<pos[n - 1][1], pos[n - 1][2] + 1>>
  /\ Parsed =>
       /\ Len(pos) = Len(schema)
       /\ \A r \in 1..Len(rows) : Len(rows[r]) = Cardinality(FieldsInRow(r))
       /\ RowsUsed = 1..Len(rows)

\* a datetime range that did not fit in the 8 units two ordinary fields left
\* and opened row 2, leaving row 1 with two columns; some row is full
C1_Witness ==
  /\ Parsed
  /\ Len(rows) >= 2
  /\ Len(rows[1]) = 2
  /\ RequiredWidth(schema[1]) = 8
  /\ RequiredWidth(schema[2]) = 8
  /\ RequiredWidth(schema[3]) = 16
  /\ pos[3] = <<2, 1>>
  /\ \E r \in 1..Len(rows) : SumWidth(schema, FieldsInRow(r)) = 24

-----------------------------------------------------------------------------
(* C2 *)

\* C2: when every field requires 8 units, the N fields make ceil(N/3) rows,
\* all of 3 columns but a last one of 1 to 3, and the i-th field (0-based) is
\* at column i mod 3 of row floor(i/3).
C2_RowsOfThree ==
  (Parsed /\ \A n \in 1..Len(schema) : RequiredWidth(schema[n]) = 8) =>
    LET N == Len(schema) IN
    /\ Len(rows) = (N + 2) \div 3
    /\ \A r \in 1..(Len(rows) - 1) : Len(rows[r]) = 3
    /\ Len(rows) >= 1 => Len(rows[Len(rows)]) \in 1..3
    /\ Len(pos) = N
    /\ \A n \in 1..N :
         /\ pos[n] = <<((n - 1) \div 3) + 1, ((n - 1) % 3) + 1>>
         /\ PlanEntry(n) # Null => PlanEntry(n).field = schema[n]

\* five 8-unit fields parsed: a full row and a last row of two
C2_Witness ==
  /\ Parsed
  /\ Len(schema) = 5
  /\ \A n \in 1..Len(schema) : RequiredWidth(schema[n]) = 8
  /\ Len(rows) = 2
  /\ Len(rows[2]) = 2

-----------------------------------------------------------------------------
(* C3 *)

\* every registration key of the schema, field by field
AllKeysFor(s) == Flatten([n \in 1..Len(s) |-> KeysFor(s[n])])

DistinctFieldKeys(s) == \A m, n \in 1..Len(s) : m # n => s[m].key # s[n].key

\* how many column producers the closure has applied so far
Applied ==
  LET upto == IF i < Len(rows) THEN i ELSE Len(rows)
      done == Flatten(SubSeq(rows, 1, upto))
  IN Len(done) + (IF i < Len(rows) THEN ci ELSE 0)

\* C3 as stated: with pairwise distinct field keys, the finished rendering has
\* registered exactly the field's key for a non-range field and key+'Begin',
\* key+'End' for a range field, and no key twice.
C3_AsStated ==
  (pc = "rendered" /\ DistinctFieldKeys(schema)) =>
    /\ regs = AllKeysFor(schema)
    /\ NoDuplicates(regs)

\* C3 (amended): the closure registers, in schema order, the field's key for a
\* non-range field and key+'Begin' then key+'End' for a range field, for every
\* field up to the first range field of unsupported dataType, where it stops;
\* when the keys and derived keys of the schema are pairwise distinct no key is
\* registered twice.
C3_RegistrationKeys ==
  (pc \in {"rendering", "rendered", "threw"}) =>
    /\ regs = AllKeysFor(SubSeq(schema, 1, Applied))
    /\ \A n \in 1..Applied : ~Unsupported(schema[n])
    /\ pc = "rendered" => Applied = Len(schema)
    /\ pc = "threw" => Applied < Len(schema) /\ Unsupported(schema[Applied + 1])
    /\ NoDuplicates(AllKeysFor(schema)) => NoDuplicates(regs)

\* a rendered schema of a range field and a plain field: three keys registered
C3_Witness ==
  /\ pc = "rendered"
  /\ NoDuplicates(AllKeysFor(schema))
  /\ \E n \in 1..Len(schema) : schema[n].showType = "between"
  /\ \E n \in 1..Len(schema) : schema[n].showType # "between"
  /\ Len(regs) >= 3

-----------------------------------------------------------------------------
(* C4 *)

\* the fields of s that are not unsupported range fields, in order
RECURSIVE Supported(_)
Supported(s) ==
  IF s = <<>> THEN <<>>
  ELSE (IF Unsupported(s[1]) THEN <<>> ELSE <<s[1]>>)
       \o Supported(SubSeq(s, 2, Len(s)))

\* C4: a range field of unsupported dataType gets a diagnostic and no column
\* producer in any row; the closure runs to completion and its form holds the
\* cells of all other fields and none for that field.
C4_DroppedFieldOmitted ==
  /\ \A n \in 1..idx :
       Unsupported(schema[n]) => log[n].level = "error"
  /\ Parsed =>
       /\ Len(Flatten(rows)) = Len(Supported(schema))
       /\ \A r \in 1..Len(rows) : \A c \in 1..Len(rows[r]) : rows[r][c] # Null
  /\ pc # "threw"
  /\ pc = "rendered" => IdsIn(form) = AllKeysFor(Supported(schema))

-----------------------------------------------------------------------------
(* C5 *)

RemoveAt(s, j) == SubSeq(s, 1, j - 1) \o SubSeq(s, j + 1, Len(s))

\* C5: every field other than an unsupported range field is placed at the row
\* and column it gets when parse is given the schema without that field.
C5_PackingUnaffectedByDrop ==
  Parsed =>
    \A j \in 1..Len(schema) :
      Unsupported(schema[j]) =>
        LET alone == ParseAll(RemoveAt(schema, j)).pos
        IN \A n \in 1..Len(schema) :
             /\ n < j => pos[n] = alone[n]
             /\ n > j => pos[n] = alone[n - 1]

-----------------------------------------------------------------------------
(* C6 *)

\* the widget of the dispatch table for a showType and a dataType
TableWidget(showType, dataType) ==
  CASE showType = "select" -> "single-choice dropdown"
    [] showType = "multiSelect" -> "multi-choice dropdown"
    [] showType = "radio" -> "radio group"
    [] showType = "checkbox" -> "checkbox group"
    [] showType = "between" /\ dataType \in {"int", "float"} ->
         "two numeric inputs"
    [] showType = "between" /\ dataType = "datetime" ->
         "two date-time pickers"
    [] showType = "between" -> "none"
    [] dataType = "int" -> "integer input"
    [] dataType = "float" -> "decimal input"
    [] dataType = "datetime" -> "date-time picker"
    [] OTHER -> "free-text input"

\* what one widget element is
InputKind(w) ==
  CASE w.type = "Select" /\ ~w.props.multiple -> "single-choice dropdown"
    [] w.type = "Select" /\ w.props.multiple -> "multi-choice dropdown"
    [] w.type = "RadioGroup" -> "radio group"
    [] w.type = "CheckboxGroup" -> "checkbox group"
    [] w.type = "InputNumber" /\ w.props.step = "default" -> "integer input"
    [] w.type = "InputNumber" /\ w.props.step = "0.01" -> "decimal input"
    [] w.type = "DatePicker" -> "date-time picker"
    [] w.type = "Input" -> "free-text input"
    [] OTHER -> "other"

\* what a column producer produces
WidgetKind(col) ==
  IF col = Null THEN "none"
  ELSE IF Len(col.items) = 1 THEN InputKind(col.items[1].widget)
  ELSE IF \A n \in 1..2 : InputKind(col.items[n].widget) \in
                             {"integer input", "decimal input"}
  THEN "two numeric inputs"
  ELSE IF \A n \in 1..2 : InputKind(col.items[n].widget) = "date-time picker"
  THEN "two date-time pickers"
  ELSE "other"

\* C6: the widget of every field that is not an unsupported range field is the
\* one the dispatch table gives for its showType and dataType, and a schema of
\* such fields renders without an error.
C6_DispatchTable ==
  /\ \A n \in 1..Len(pos) :
       ~Unsupported(schema[n]) =>
         /\ Entry(n) # Null
         /\ WidgetKind(Entry(n)) = TableWidget(schema[n].showType,
                                               schema[n].dataType)
  /\ (\A n \in 1..Len(schema) : ~Unsupported(schema[n])) => pc # "threw"
  /\ (pc = "rendered" /\ \A n \in 1..Len(schema) : ~Unsupported(schema[n])) =>
       Len(form.children) = Len(rows)

\* a field with neither a known showType nor a known dataType, rendered as a
\* free-text input
C6_Witness ==
  /\ pc = "rendered"
  /\ Len(schema) = 1
  /\ schema[1].showType = "undefined"
  /\ schema[1].dataType = "unknown"
  /\ WidgetKind(PlanEntry(1)) = "free-text input"

-----------------------------------------------------------------------------
(* C7 *)

\* the cells of the rendered form, row by row and column by column
FormCells == Flatten([r \in 1..Len(form.children) |-> form.children[r].children])

\* C7: for a schema without unsupported range fields the rendered form has one
\* row container per row of the plan and one element per column producer, in
\* the plan's order, and read row by row, column by column it yields every
\* field exactly once, in schema order.
C7_OrderAndCompleteness ==
  (pc = "rendered" /\ \A n \in 1..Len(schema) : ~Unsupported(schema[n])) =>
    /\ form.type = "Form"
    /\ Len(form.children) = Len(rows)
    /\ \A r \in 1..Len(rows) :
         /\ form.children[r].type = "Row"
         /\ form.children[r].key = ToString(r - 1)
         /\ Len(form.children[r].children) = Len(rows[r])
         /\ \A c \in 1..Len(rows[r]) :
              form.children[r].children[c] = ApplyCol(rows[r][c])
    /\ Len(FormCells) = Len(schema)
    /\ \A n \in 1..Len(schema) :
         /\ IdsIn(FormCells[n]) = KeysFor(schema[n])
         /\ PlanEntry(n).field = schema[n]

\* a rendered form of two rows or more with a datetime range among its fields
C7_Witness ==
  /\ pc = "rendered"
  /\ \A n \in 1..Len(schema) : ~Unsupported(schema[n])
  /\ Len(schema) >= 4
  /\ Len(form.children) >= 2
  /\ \E n \in 1..Len(schema) : RequiredWidth(schema[n]) = 16

-----------------------------------------------------------------------------
(* C8 *)

\* C8: no row of the plan is empty; the plan has no rows exactly when the
\* schema is empty, and the form rendered for the empty schema has no rows.
C8_NoEmptyRow ==
  /\ \A r \in 1..Len(rows) : Len(rows[r]) >= 1
  /\ Parsed => (Len(rows) = 0 <=> schema = <<>>)
  /\ (pc = "rendered" /\ schema = <<>>) =>
       form.type = "Form" /\ form.children = <<>>

\* the empty schema, rendered
C8_Witness ==
  /\ pc = "rendered"
  /\ schema = <<>>
  /\ rows = <<>>

-----------------------------------------------------------------------------
(* C9 *)

DatetimeRange(f) == f.showType = "between" /\ f.dataType = "datetime"

DivCount(els) ==
  Cardinality({n \in 1..Len(els) : els[n].key = "datetimeBetweenDiv"})

-----------------------------------------------------------------------------
(* C10 *)

\* the top-level 8-unit cells an entry of the plan renders
CellsOf(col) == IF col = Null THEN 0 ELSE TopCells(ApplyCol(col))

RECURSIVE SumCells(_)
SumCells(els) ==
  IF els = <<>> THEN 0
  ELSE TopCells(els[1]) + SumCells(SubSeq(els, 2, Len(els)))

\* C10: every entry placed in a row renders as many top-level 8-unit cells as
\* the packing loop charged it eighths of units, so a rendered row has at most
\* 3 such cells.
C10_ChargedIsRendered ==
  /\ \A n \in 1..Len(pos) : CellsOf(Entry(n)) * 8 = spaceNeed(schema[n])
  /\ \A r \in 1..Len(formRows) : SumCells(formRows[r].children) <= 3

====
